---------------------------- MODULE Spec2Model ----------------------------
(***************************************************************************)
(* signal-radar: the trend-radar keyword pipeline of signals.py            *)
(* (normalize_keyword, extract_candidates_from_title, score_item,          *)
(* build_signal_candidates) and the part of main.py that stores its result *)
(* (run_signals, save_signals_diff, cleanup_old_data).                     *)
(*                                                                         *)
(* A Python str is a sequence of one-character strings, so that the        *)
(* regular expressions, substring tests and slices of the code are         *)
(* computed character by character.  The alphabet is ASCII.  A Python dict *)
(* read with .get is a function whose DOMAIN holds the keys present.       *)
(***************************************************************************)
EXTENDS Integers, Sequences, FiniteSets, TLC

VARIABLES
    items,      \* build_signal_candidates: the batch of feed items
    rules,      \* build_signal_candidates: the rules mapping
    pc,         \* position inside build_signal_candidates / main
    out,        \* signals.py:80   raw candidates, in emission order
    merged,     \* signals.py:106  dict keyword -> entry, in insertion order
    final,      \* signals.py:115  the list that is returned
    today,      \* main.py: the day datetime.now() falls on
    files,      \* main.py: diff/<day>/signals.jsonl, day -> records, or NoFile
    runs,       \* main.py: how many times main has been started
    config      \* main.py: the mapping load_config returns

vars == <<items, rules, pc, out, merged, final, today, files, runs, config>>

mainVars == <<today, files, runs, config>>

---------------------------------------------------------------------------
(* Characters                                                              *)

UpperSeq ==
    <<"A","B","C","D","E","F","G","H","I","J","K","L","M",
      "N","O","P","Q","R","S","T","U","V","W","X","Y","Z">>

LowerSeq ==
    <<"a","b","c","d","e","f","g","h","i","j","k","l","m",
      "n","o","p","q","r","s","t","u","v","w","x","y","z">>

UpperSet == {UpperSeq[i] : i \in 1..26}

LowerSet == {LowerSeq[i] : i \in 1..26}

Digits == {"0","1","2","3","4","5","6","7","8","9"}

\* \s of the re module, ASCII part; also what str.strip() and str.split() cut at
Whitespace == {" ", "\t", "\n", "\r", "\f"}

\* \w of the re module, ASCII part
WordChars == UpperSet \cup LowerSet \cup Digits \cup {"_"}

\* [a-z0-9]
LowDigit == LowerSet \cup Digits

\* [A-Z0-9]
UpDigit == UpperSet \cup Digits

\* the first character class of normalize_keyword (ASCII members)
BracketQuote == {"[", "]", "(", ")", "{", "}", "<", ">", "\"", "'"}

\* the characters the second character class of normalize_keyword keeps
KeptChars == LowDigit \cup Whitespace \cup {"-"}

SetMin(S) == CHOOSE x \in S : \A y \in S : x <= y

SetMax(S) == CHOOSE x \in S : \A y \in S : x >= y

\* str.lower() on one character
ToLower(c) ==
    IF c \in UpperSet THEN LowerSeq[CHOOSE i \in 1..26 : UpperSeq[i] = c] ELSE c

\* str.lower()
Lowered(s) == [i \in 1..Len(s) |-> ToLower(s[i])]

\* str.strip()
Strip(s) ==
    LET idx == {i \in 1..Len(s) : s[i] \notin Whitespace}
    IN  IF idx = {} THEN <<>> ELSE SubSeq(s, SetMin(idx), SetMax(idx))

\* re.sub(r"[...]", " ", s) for a class given as the set of characters it matches
SubClass(s, Class) == [i \in 1..Len(s) |-> IF s[i] \in Class THEN " " ELSE s[i]]

\* re.sub(r"[^a-z0-9\s\-]", " ", s)
SubNotKept(s) == [i \in 1..Len(s) |-> IF s[i] \in KeptChars THEN s[i] ELSE " "]

\* re.sub(r"\s+", " ", s): every maximal run of whitespace becomes one space
CollapseWhitespace(s) ==
    LET Keep(i) == s[i] \notin Whitespace \/ i = 1 \/ s[i-1] \notin Whitespace
        kept == SelectSeq([i \in 1..Len(s) |-> i], Keep)
    IN  [j \in 1..Len(kept) |-> IF s[kept[j]] \in Whitespace THEN " " ELSE s[kept[j]]]

normalize_keyword(s) ==
    LET s1 == Lowered(Strip(s))
        s2 == SubClass(s1, BracketQuote)
        s3 == SubNotKept(s2)
    IN  Strip(CollapseWhitespace(s3))

\* "k in t" for two strings
Contains(t, k) ==
    \E i \in 0..(Len(t) - Len(k)) : \A j \in 1..Len(k) : t[i + j] = k[j]

\* the last index of the longest run of Class characters that starts at i
\* (i - 1 when s[i] is not in Class)
RECURSIVE RunEnd(_, _, _)
RunEnd(s, i, Class) ==
    IF i <= Len(s) /\ s[i] \in Class THEN RunEnd(s, i + 1, Class) ELSE i - 1

\* str.split(): the maximal runs of non-whitespace, in order
RECURSIVE SplitFrom(_, _)
SplitFrom(s, i) ==
    IF i > Len(s) THEN <<>>
    ELSE IF s[i] \in Whitespace THEN SplitFrom(s, i + 1)
    ELSE LET e == RunEnd(s, i, {s[j] : j \in 1..Len(s)} \ Whitespace)
         IN  <<SubSeq(s, i, e)>> \o SplitFrom(s, e + 1)

Split(s) == SplitFrom(s, 1)

---------------------------------------------------------------------------
(* signals.py: extract_candidates_from_title                               *)

\* {0,3}: the most further words one capitalised run takes
MaxExtraWords == 3

\* len(cc) >= 3
MinCapsLen == 3

\* \b between s[p] and s[p+1] (p = 0 is the start, p = Len(s) the end)
WordBoundary(s, p) ==
    (p >= 1 /\ p <= Len(s) /\ s[p] \in WordChars)
        # (p + 1 <= Len(s) /\ s[p + 1] \in WordChars)

\* [X][a-z0-9]+ at i, X given as First: the index of its last character, taken
\* greedily, or 0 when it does not match
WordEnd(s, i, First) ==
    IF i >= 1 /\ i + 1 <= Len(s) /\ s[i] \in First /\ s[i + 1] \in LowDigit
    THEN RunEnd(s, i + 1, LowDigit)
    ELSE 0

\* one iteration of (?:\s+[A-Z0-9][a-z0-9]+) after index e: its last index, or 0
GroupEnd(s, e) ==
    LET w == RunEnd(s, e + 1, Whitespace)
    IN  IF w > e THEN WordEnd(s, w + 1, UpDigit) ELSE 0

\* the indices the match can end at after 0, 1, ... greedy iterations of the
\* group, at most k of them
RECURSIVE GroupEnds(_, _, _)
GroupEnds(s, e, k) ==
    LET g == GroupEnd(s, e)
    IN  IF k > 0 /\ g # 0 THEN <<e>> \o GroupEnds(s, g, k - 1) ELSE <<e>>

\* \b([A-Z][a-z0-9]+(?:\s+[A-Z0-9][a-z0-9]+){0,3})\b tried at i: the index of
\* the match's last character, or 0.  The closing \b is tried after the most
\* iterations first and then, backtracking, after fewer.  (Giving back part of
\* a [a-z0-9]+ or of a \s+ never helps: the character given back is then the
\* next one, and it is neither a boundary nor the start of a further word.)
MatchEnd(s, i) ==
    LET first == WordEnd(s, i, UpperSet)
        ends  == GroupEnds(s, first, MaxExtraWords)
        ok    == {j \in 1..Len(ends) : WordBoundary(s, ends[j])}
    IN  IF ~(WordBoundary(s, i - 1) /\ first # 0) THEN 0
        ELSE IF ok = {} THEN 0 ELSE ends[SetMax(ok)]

\* re.findall: leftmost matches, not overlapping, scanning from i
RECURSIVE FindAllFrom(_, _)
FindAllFrom(s, i) ==
    IF i > Len(s) THEN <<>>
    ELSE LET e == MatchEnd(s, i)
         IN  IF e # 0 THEN <<SubSeq(s, i, e)>> \o FindAllFrom(s, e + 1)
             ELSE FindAllFrom(s, i + 1)

FindCaps(title) == FindAllFrom(title, 1)

\* the "seen" loop: drop repeats, keep the first of each, keep the order
RECURSIVE Dedup(_)
Dedup(cs) ==
    IF cs = <<>> THEN <<>>
    ELSE LET front == Dedup(SubSeq(cs, 1, Len(cs) - 1))
             c     == cs[Len(cs)]
         IN  IF \E j \in 1..Len(front) : front[j] = c THEN front
             ELSE Append(front, c)

CapsKept(cc) == cc # <<>> /\ Len(cc) >= MinCapsLen

extract_candidates_from_title(title) ==
    IF title = <<>> THEN <<>>
    ELSE LET base == normalize_keyword(title)
             caps == FindCaps(title)
             norm == [j \in 1..Len(caps) |-> normalize_keyword(caps[j])]
         IN  Dedup((IF base # <<>> THEN <<base>> ELSE <<>>)
                        \o SelectSeq(norm, CapsKept))

---------------------------------------------------------------------------
(* signals.py: score_item                                                  *)

\* return -999
DenyScore == 0 - 999

\* score += 3
BoostPoints == 3

\* score += 2
OnlinePoints == 2

\* score += 4
IntentPoints == 4

\* "play online"
PlayOnline ==
    <<"p","l","a","y"," ","o","n","l","i","n","e">>

\* "browser"
Browser ==
    <<"b","r","o","w","s","e","r">>

\* "what game is this"
WhatGameIsThis ==
    <<"w","h","a","t"," ","g","a","m","e"," ","i","s"," ","t","h","i","s">>

\* "name of the game"
NameOfTheGame ==
    <<"n","a","m","e"," ","o","f"," ","t","h","e"," ","g","a","m","e">>

\* dict.get(key, default)
Get(d, key, default) == IF key \in DOMAIN d THEN d[key] ELSE default

\* [x.lower() for x in xs]
LoweredAll(xs) == [j \in 1..Len(xs) |-> Lowered(xs[j])]

\* any(k in t for k in deny)
AnyDeny(t, deny) == \E j \in 1..Len(deny) : Contains(t, deny[j])

\* as BoostLoop, leaving the loop at the first keyword found
BoostLoopFirstMatch(t, boost, score) ==
    IF \E j \in 1..Len(boost) : Contains(t, boost[j])
    THEN score + BoostPoints ELSE score

\* for k in boost: if k in t: score += 3
RECURSIVE BoostLoop(_, _, _)
BoostLoop(t, boost, score) ==
    IF boost = <<>> THEN score
    ELSE BoostLoop(t, Tail(boost),
                   IF Contains(t, Head(boost)) THEN score + BoostPoints ELSE score)

\* as score_item, with the deny keywords adding no veto
score_item_NoVeto(text, rules_) ==
    LET t     == Lowered(text)
        boost == LoweredAll(Get(rules_, "boost_keywords", <<>>))
        s1    == BoostLoop(t, boost, 0)
        s2    == IF Contains(t, PlayOnline) \/ Contains(t, Browser)
                 THEN s1 + OnlinePoints ELSE s1
    IN  IF Contains(t, WhatGameIsThis) \/ Contains(t, NameOfTheGame)
        THEN s2 + IntentPoints ELSE s2

score_item(text, rules_) ==
    LET t     == Lowered(text)
        deny  == LoweredAll(Get(rules_, "deny_keywords", <<>>))
        boost == LoweredAll(Get(rules_, "boost_keywords", <<>>))
        s1    == BoostLoop(t, boost, 0)
        s2    == IF Contains(t, PlayOnline) \/ Contains(t, Browser)
                 THEN s1 + OnlinePoints ELSE s1
        s3    == IF Contains(t, WhatGameIsThis) \/ Contains(t, NameOfTheGame)
                 THEN s2 + IntentPoints ELSE s2
    IN  IF AnyDeny(t, deny) THEN DenyScore ELSE s3

---------------------------------------------------------------------------
(* signals.py: build_signal_candidates                                     *)

STOPWORDS ==
    {<<"t","h","e">>, <<"a">>, <<"a","n">>,
     <<"a","n","d">>, <<"o","r">>, <<"t","o">>,
     <<"o","f">>, <<"i","n">>, <<"o","n">>,
     <<"f","o","r">>, <<"w","i","t","h">>, <<"t","h","i","s">>,
     <<"t","h","a","t">>, <<"i","s">>, <<"a","r","e">>,
     <<"w","a","s">>, <<"w","e","r","e">>, <<"g","a","m","e">>,
     <<"g","a","m","e","s">>, <<"p","l","a","y">>}

\* it.get("source") of an item without the key: Python's None.  No source tag
\* of the model is this string.
None == "None"

\* len(kw) < 6
MinKeywordLen == 6

\* title[:160]
TitleMax == 160

\* rules.get("score_threshold", 6)
DefaultThreshold == 6

\* v["score"] += 2
BonusPoints == 2

\* len(v["sources"]) >= 2
BonusSources == 2

\* the source tags of the model in Python's str order ("bing" < "reddit" < ...)
SourceOrder == <<"bing", "reddit", "youtube">>

\* s[:n]
Prefix(s, n) == SubSeq(s, 1, IF Len(s) < n THEN Len(s) ELSE n)

\* lines 91-95: the keyword is long enough and not made of stopwords only
KeywordKept(kw) ==
    LET NotStop(x) == x \notin STOPWORDS
        tokens == SelectSeq(Split(kw), NotStop)
    IN  ~(Len(kw) < MinKeywordLen) /\ ~(Len(tokens) < 1)

\* if s < 0: continue
Skipped(s) == s < 0

\* lines 83-103: the raw candidates one item appends to out
ItemCandidates(it, rules_) ==
    LET title == Get(it, "title", <<>>)
        link  == Get(it, "link", "")
        s     == score_item(title, rules_)
        kws   == SelectSeq(extract_candidates_from_title(title), KeywordKept)
    IN  IF Skipped(s) THEN <<>>
        ELSE [j \in 1..Len(kws) |->
                [keyword        |-> kws[j],
                 score          |-> s,
                 source         |-> Get(it, "source", None),
                 evidence_title |-> Prefix(title, TitleMax),
                 evidence_link  |-> link]]

\* lines 82-103: for it in items
RECURSIVE RawCandidates(_, _)
RawCandidates(its, rules_) ==
    IF its = <<>> THEN <<>>
    ELSE ItemCandidates(Head(its), rules_) \o RawCandidates(Tail(its), rules_)

\* {**c, "sources": srcs}
Entry(c, srcs) ==
    [keyword        |-> c.keyword,
     score          |-> c.score,
     source         |-> c.source,
     evidence_title |-> c.evidence_title,
     evidence_link  |-> c.evidence_link,
     sources        |-> srcs]

\* as Overwrites, with >= for >: a later candidate of equal score overwrites
OverwritesOnTie(c, e) == c.score >= e.score

\* if c["score"] > merged[k]["score"]
Overwrites(c, e) == c.score > e.score

\* as KeyIndex, never finding the keyword: every candidate opens an entry
KeyIndexNone(m, k) == {}

\* k not in merged: the positions of merged that hold keyword k
KeyIndex(m, k) == {j \in 1..Len(m) : m[j].keyword = k}

\* lines 108-114: one iteration of the merge loop
MergeOne(m, c) ==
    IF KeyIndex(m, c.keyword) = {} THEN Append(m, Entry(c, {c.source}))
    ELSE LET j    == CHOOSE j \in KeyIndex(m, c.keyword) : TRUE
             srcs == m[j].sources \cup {c.source}
         IN  [m EXCEPT ![j] = IF Overwrites(c, m[j]) THEN Entry(c, srcs)
                              ELSE [m[j] EXCEPT !.sources = srcs]]

\* lines 106-114: for c in out
RECURSIVE MergeLoop(_, _)
MergeLoop(m, cs) ==
    IF cs = <<>> THEN m ELSE MergeLoop(MergeOne(m, Head(cs)), Tail(cs))

\* sorted() compares its elements with <, which str and None do not support
SortRaises(srcs) == None \in srcs /\ Cardinality(srcs) >= 2

SourceRank(x) == CHOOSE i \in 1..Len(SourceOrder) : SourceOrder[i] = x

\* sorted(list(v["sources"])) when it does not raise
RECURSIVE SortedSources(_)
SortedSources(srcs) ==
    IF srcs = {} THEN <<>>
    ELSE IF srcs = {None} THEN <<None>>
    ELSE LET x == CHOOSE x \in srcs :
                      \A y \in srcs : SourceRank(x) <= SourceRank(y)
         IN  <<x>> \o SortedSources(srcs \ {x})

\* as Bonus, paid for every source beyond the first
BonusPerExtraSource(n) == IF n >= BonusSources THEN (n - 1) * BonusPoints ELSE 0

\* lines 119-120: what the entry's score grows by
Bonus(n) == IF n >= BonusSources THEN BonusPoints ELSE 0

\* lines 117-120: the entry after its sources are sorted and its bonus added
Finalized(e) ==
    [e EXCEPT !.sources = SortedSources(e.sources),
              !.score   = e.score + Bonus(Len(SortedSources(e.sources)))]

\* as Threshold, with no default of 6
ThresholdDefaultZero(rules_) == Get(rules_, "score_threshold", 0)

Threshold(rules_) == Get(rules_, "score_threshold", DefaultThreshold)

\* if v["score"] >= threshold
Passes(e, threshold) == e.score >= threshold

\* lines 116-122 raise at the first entry whose sources cannot be sorted
FinalizeRaises(m) == \E j \in 1..Len(m) : SortRaises(m[j].sources)

\* lines 116-120: merged after the loop, its values changed in place
FinalizedAll(m) == [j \in 1..Len(m) |-> Finalized(m[j])]

\* lines 115-122: the list final before it is sorted
FinalList(m, threshold) ==
    LET Keep(e) == Passes(e, threshold)
    IN  SelectSeq(FinalizedAll(m), Keep)

\* as InsertDesc, putting x before the entries of equal score: not stable
InsertDescBeforeTies(sorted, x) ==
    LET k == Cardinality({j \in 1..Len(sorted) : sorted[j].score > x.score})
    IN  SubSeq(sorted, 1, k) \o <<x>> \o SubSeq(sorted, k + 1, Len(sorted))

\* list.sort(key=score, reverse=True) puts x after the entries it does not beat
InsertDesc(sorted, x) ==
    LET k == Cardinality({j \in 1..Len(sorted) : sorted[j].score >= x.score})
    IN  SubSeq(sorted, 1, k) \o <<x>> \o SubSeq(sorted, k + 1, Len(sorted))

\* line 125: final.sort(key=lambda x: x["score"], reverse=True), a stable sort
RECURSIVE SortByScoreDesc(_)
SortByScoreDesc(es) ==
    IF es = <<>> THEN <<>>
    ELSE InsertDesc(SortByScoreDesc(SubSeq(es, 1, Len(es) - 1)), es[Len(es)])

\* the call as a whole: whether it raised, and the list it returned
build_signal_candidates(its, rules_) ==
    LET m == MergeLoop(<<>>, RawCandidates(its, rules_))
    IN  IF FinalizeRaises(m) THEN [raised |-> TRUE, value |-> <<>>]
        ELSE [raised |-> FALSE,
              value  |-> SortByScoreDesc(FinalList(m, Threshold(rules_)))]

---------------------------------------------------------------------------
(* The inputs: feed items and rules                                        *)

\* "What game is this? Crazy Cattle 3D looks amazing"
Title_Ex1 ==
    <<"W","h","a","t"," ","g","a","m","e"," ","i","s"," ","t","h","i",
      "s","?"," ","C","r","a","z","y"," ","C","a","t","t","l","e"," ",
      "3","D"," ","l","o","o","k","s"," ","a","m","a","z","i","n","g">>

\* "Crazy Cattle 3D gameplay - play online browser game"
Title_Ex2 ==
    <<"C","r","a","z","y"," ","C","a","t","t","l","e"," ","3","D"," ",
      "g","a","m","e","p","l","a","y"," ","-"," ","p","l","a","y"," ",
      "o","n","l","i","n","e"," ","b","r","o","w","s","e","r"," ","g",
      "a","m","e">>

\* "Crazy Cattle"
Title_CC ==
    <<"C","r","a","z","y"," ","C","a","t","t","l","e">>

\* "[Crazy Cattle] cattle"
Title_CCb ==
    <<"[","C","r","a","z","y"," ","C","a","t","t","l","e","]"," ","c",
      "a","t","t","l","e">>

\* "The Game: Crazy Cattle, casino browser"
Title_Deny ==
    <<"T","h","e"," ","G","a","m","e",":"," ","C","r","a","z","y"," ",
      "C","a","t","t","l","e",","," ","c","a","s","i","n","o"," ","b",
      "r","o","w","s","e","r">>

\* "cattle"
Kw_cattle ==
    <<"c","a","t","t","l","e">>

\* "CATTLE"
Kw_CATTLE ==
    <<"C","A","T","T","L","E">>

\* "Casino"
Kw_Casino ==
    <<"C","a","s","i","n","o">>

\* "casino"
Kw_casino ==
    <<"c","a","s","i","n","o">>

\* the items a batch is drawn from: the two of the documented scenario, two
\* more titles with the keyword "crazy cattle" and equal scores, an item with
\* no "source" key, one with neither title nor link, and one a deny keyword
\* can veto, which also holds a run of stopwords ("The Game")
ItemPool ==
    << [source |-> "reddit",  title |-> Title_Ex1,   link |-> "L1"],
       [source |-> "youtube", title |-> Title_Ex2,   link |-> "L2"],
       [source |-> "reddit",  title |-> Title_CC,    link |-> "L3"],
       [source |-> "youtube", title |-> Title_CCb,   link |-> "L4"],
       [title  |-> Title_CC,  link  |-> "L5"],
       [source |-> "bing"],
       [source |-> "bing",    title |-> Title_Deny,  link |-> "L7"] >>

\* no key at all: {}
EmptyDict == <<>>

\* the rules of the documented scenario
ExampleRules == [boost_keywords |-> <<Kw_cattle>>, score_threshold |-> 6]

RulesPool ==
    << ExampleRules,
       EmptyDict,
       [deny_keywords   |-> <<Kw_Casino>>,
        boost_keywords  |-> <<Kw_cattle, Kw_CATTLE>>,
        score_threshold |-> 7],
       [deny_keywords   |-> <<Kw_casino>>,
        boost_keywords  |-> <<Kw_cattle>>,
        score_threshold |-> 3] >>

\* the longest batch build_signal_candidates is given
MaxItems == 3

\* every sequence of at most n members of pool
Batches(pool, n) ==
    UNION {{[j \in 1..k |-> pool[f[j]]] : f \in [1..k -> 1..Len(pool)]} : k \in 0..n}

---------------------------------------------------------------------------
(* build_signal_candidates, phase by phase                                 *)

MainIdle == today = 1 /\ files = <<>> /\ runs = 0 /\ config = <<>>

Init ==
    /\ items \in Batches(ItemPool, MaxItems)
    /\ rules \in {RulesPool[r] : r \in 1..Len(RulesPool)}
    /\ pc = "collect"
    /\ out = <<>>
    /\ merged = <<>>
    /\ final = <<>>
    /\ MainIdle

\* lines 82-103
Collect ==
    /\ pc = "collect"
    /\ out' = RawCandidates(items, rules)
    /\ pc' = "merge"
    /\ UNCHANGED <<items, rules, merged, final, mainVars>>

\* lines 106-114
Merge ==
    /\ pc = "merge"
    /\ merged' = MergeLoop(<<>>, out)
    /\ pc' = "finalize"
    /\ UNCHANGED <<items, rules, out, final, mainVars>>

\* lines 115-122, no sorted() raising
Finalize ==
    /\ pc = "finalize"
    /\ ~FinalizeRaises(merged)
    /\ merged' = FinalizedAll(merged)
    /\ final' = FinalList(merged, Threshold(rules))
    /\ pc' = "sort"
    /\ UNCHANGED <<items, rules, out, mainVars>>

\* lines 115-122, sorted() raising TypeError: the call ends without a result
FinalizeRaise ==
    /\ pc = "finalize"
    /\ FinalizeRaises(merged)
    /\ pc' = "raised"
    /\ UNCHANGED <<items, rules, out, merged, final, mainVars>>

\* lines 125-126
SortAndReturn ==
    /\ pc = "sort"
    /\ final' = SortByScoreDesc(final)
    /\ pc' = "returned"
    /\ UNCHANGED <<items, rules, out, merged, mainVars>>

Next ==
    \/ Collect
    \/ Merge
    \/ Finalize
    \/ FinalizeRaise
    \/ SortAndReturn

Spec == Init /\ [][Next]_vars

---------------------------------------------------------------------------
(* main.py: main, run_signals, save_signals_diff, cleanup_old_data         *)
(*                                                                         *)
(* files maps each day that has a diff/<day>/signals.jsonl to its lines,   *)
(* one candidate a line.  json.dumps writes a candidate's keys and values  *)
(* in full, so two lines are equal exactly when the candidates are, and a  *)
(* line is kept as the candidate it encodes.  The sitemap monitors of main *)
(* write other files and are left out.                                     *)

\* (config.get("storage") or {}).get("retention_days", 7)
DefaultRetention == 7

\* what load_config may return
ConfigPool ==
    << [signals |-> [enabled |-> TRUE], rules |-> ExampleRules],
       [signals |-> [enabled |-> TRUE], rules |-> RulesPool[4],
        storage |-> [retention_days |-> 1]],
       [rules |-> ExampleRules] >>

\* what the feed readers may return: they tag every item with its source
FetchPool == <<ItemPool[1], ItemPool[2], ItemPool[3], ItemPool[4]>>

\* the most items one run fetches
MaxFetch == 2

\* the most runs of main
MaxRuns == 2

\* the last day of the model
MaxDay == 2

InitMain ==
    /\ config \in {ConfigPool[c] : c \in 1..Len(ConfigPool)}
    /\ items = <<>>
    /\ rules = EmptyDict
    /\ pc = "idle"
    /\ out = <<>>
    /\ merged = <<>>
    /\ final = <<>>
    /\ today = 1
    /\ files = <<>>
    /\ runs = 0

\* main.py:222-247: main starts and works through the sitemap monitors
StartMain ==
    /\ pc = "idle"
    /\ runs < MaxRuns
    /\ runs' = runs + 1
    /\ pc' = "run_signals"
    /\ UNCHANGED <<items, rules, out, merged, final, today, files, config>>

\* sig.get("enabled")
SignalsEnabled(cfg) == Get(Get(cfg, "signals", EmptyDict), "enabled", FALSE)

\* main.py:154-171 and 249-250: candidates = run_signals(config)
RunSignals ==
    /\ pc = "run_signals"
    /\ IF ~SignalsEnabled(config)
       THEN /\ final' = <<>>
            /\ pc' = "cleanup"
            /\ UNCHANGED <<items, rules>>
       ELSE \E batch \in Batches(FetchPool, MaxFetch) :
                /\ items' = batch
                /\ rules' = Get(config, "rules", EmptyDict)
                /\ \E res \in {build_signal_candidates(items', rules')} :
                        /\ final' = IF res.raised THEN final ELSE res.value
                        /\ pc' = IF res.raised THEN "crashed"
                                 ELSE IF res.value # <<>> THEN "save"
                                 ELSE "cleanup"
    /\ UNCHANGED <<out, merged, today, files, runs, config>>

\* open(out_path, "w") and one line per candidate
WriteSignals(fs, day, candidates) ==
    [d \in DOMAIN fs \cup {day} |-> IF d = day THEN candidates ELSE fs[d]]

\* main.py:174-184 and 251-260: save_signals_diff(candidates), then the
\* notification, which changes nothing here
SaveSignalsDiff ==
    /\ pc = "save"
    /\ files' = WriteSignals(files, today, final)
    /\ pc' = "cleanup"
    /\ UNCHANGED <<items, rules, out, merged, final, today, runs, config>>

RetentionDays(cfg) ==
    Get(Get(cfg, "storage", EmptyDict), "retention_days", DefaultRetention)

\* dir_date < cutoff: the folder's day began at least retention days ago
Expired(d, now, retention) == d + retention <= now

\* main.py:190-216 and 263: cleanup_old_data(config)
CleanupOldData ==
    /\ pc = "cleanup"
    /\ files' = [d \in {x \in DOMAIN files :
                            ~Expired(x, today, RetentionDays(config))}
                    |-> files[d]]
    /\ pc' = "idle"
    /\ UNCHANGED <<items, rules, out, merged, final, today, runs, config>>

\* midnight passes
NextDay ==
    /\ today < MaxDay
    /\ today' = today + 1
    /\ UNCHANGED <<items, rules, pc, out, merged, final, files, runs, config>>

NextMain ==
    \/ StartMain
    \/ RunSignals
    \/ SaveSignalsDiff
    \/ CleanupOldData
    \/ NextDay

SpecMain == InitMain /\ [][NextMain]_vars

---------------------------------------------------------------------------
(* Properties of build_signal_candidates, under Spec                       *)

\* the raw candidates of keyword k, as positions of out
Group(k) == {i \in 1..Len(out) : out[i].keyword = k}

\* the highest raw score of keyword k
MaxRaw(k) == SetMax({out[i].score : i \in Group(k)})

\* the raw candidates of keyword k that have its highest score
TopOf(k) == {i \in Group(k) : out[i].score = MaxRaw(k)}

\* the distinct sources of keyword k
GroupSources(k) == {out[i].source : i \in Group(k)}

\* where keyword k is first met
FirstSeen(k) == SetMin(Group(k))

\* entry e holds the score and the evidence of raw candidate i
KeptFrom(e, i) ==
    /\ e.evidence_title = out[i].evidence_title
    /\ e.evidence_link = out[i].evidence_link

\* the title holds a deny keyword of the rules, whatever its case
DeniedBy(title, r) ==
    LET deny == Get(r, "deny_keywords", <<>>)
    IN  \E j \in 1..Len(deny) : Contains(Lowered(title), Lowered(deny[j]))

DeniedItem(it) == DeniedBy(Get(it, "title", <<>>), rules)

NotDeniedItem(it) == ~DeniedItem(it)

\* "crazy cattle 3d"
Kw_crazy_cattle_3d ==
    <<"c","r","a","z","y"," ","c","a","t","t","l","e"," ","3","d">>

\* C1 as stated: every returned entry holds the evidence_title and
\* evidence_link, and (before the bonus) the score, of the LAST raw candidate
\* among those of its keyword that have the keyword's highest score.
C1_LastTopWins ==
    pc = "returned" =>
        \A j \in 1..Len(final) :
            LET l == SetMax(TopOf(final[j].keyword))
            IN  /\ KeptFrom(final[j], l)
                /\ final[j].score
                      = out[l].score + (IF Len(final[j].sources) >= 2 THEN 2 ELSE 0)

\* C1 amended: after the merge every keyword has one entry, and the entry
\* holds the score, evidence_title and evidence_link of the FIRST raw
\* candidate among those of the keyword that have its highest score; the
\* returned entries keep that evidence.
C1_FirstTopWins ==
    /\ pc = "finalize" =>
        /\ \A i \in 1..Len(out) : \E j \in 1..Len(merged) :
                merged[j].keyword = out[i].keyword
        /\ \A j \in 1..Len(merged) :
                LET f == SetMin(TopOf(merged[j].keyword))
                IN  merged[j].score = out[f].score /\ KeptFrom(merged[j], f)
    /\ pc = "returned" =>
        \A j \in 1..Len(final) :
            KeptFrom(final[j], SetMin(TopOf(final[j].keyword)))

\* a keyword whose highest score is reached by two candidates with different
\* evidence has been merged
C1_Witness ==
    /\ pc = "finalize"
    /\ \E j \in 1..Len(merged) :
            LET top == TopOf(merged[j].keyword)
            IN  /\ Cardinality(top) >= 2
                /\ out[SetMin(top)].evidence_link # out[SetMax(top)].evidence_link
                /\ out[SetMin(top)].evidence_title # out[SetMax(top)].evidence_title

\* C2: for the documented batch and rules, "crazy cattle 3d" is extracted from
\* both titles and is the first entry returned, with score 9 and sources
\* reddit and youtube.
C2_ScenarioTop ==
    (items = <<ItemPool[1], ItemPool[2]>> /\ rules = ExampleRules /\ pc = "returned")
        => /\ \E i \in Group(Kw_crazy_cattle_3d) : out[i].source = "reddit"
           /\ \E i \in Group(Kw_crazy_cattle_3d) : out[i].source = "youtube"
           /\ Len(final) >= 1
           /\ final[1].keyword = Kw_crazy_cattle_3d
           /\ final[1].score = 9
           /\ final[1].sources = <<"reddit", "youtube">>

\* C3: build_signal_candidates never raises, whichever fields of an item are
\* absent.
C3_NeverRaises == pc # "raised"

\* C4: a returned entry with two or more distinct sources has the highest raw
\* score of its keyword plus 2, however many sources there are; one with a
\* single source has that highest raw score; its sources are the distinct
\* sources of the keyword.
C4_BonusOnce ==
    pc = "returned" =>
        \A j \in 1..Len(final) :
            LET k == final[j].keyword
                n == Cardinality(GroupSources(k))
            IN  /\ Len(final[j].sources) = n
                /\ {final[j].sources[x] : x \in 1..n} = GroupSources(k)
                /\ n >= 2 => final[j].score = MaxRaw(k) + 2
                /\ n = 1 => final[j].score = MaxRaw(k)

\* an entry with three distinct sources, and one with a single source, are
\* returned
C4_Witness ==
    /\ pc = "returned"
    /\ \E j \in 1..Len(final) : Len(final[j].sources) >= 3
    /\ \E j \in 1..Len(final) : Len(final[j].sources) = 1

\* C5: a title that holds a deny keyword scores -999 whatever else matches,
\* and its item adds nothing: the raw candidates and the returned list are
\* those of the batch without the vetoed items.
C5_DenyVeto ==
    /\ pc = "merge" =>
        /\ \A i \in 1..Len(items) :
                DeniedItem(items[i]) =>
                    score_item(Get(items[i], "title", <<>>), rules) = 0 - 999
        /\ out = RawCandidates(SelectSeq(items, NotDeniedItem), rules)
        /\ \A i \in 1..Len(out) : ~DeniedBy(out[i].evidence_title, rules)
    /\ pc = "returned" =>
        final = build_signal_candidates(SelectSeq(items, NotDeniedItem), rules).value

\* a vetoed item whose title also holds a boost keyword and the keyword of a
\* returned entry, to whose sources its own would have added
C5_Witness ==
    /\ pc = "returned"
    /\ \E i \in 1..Len(items), j \in 1..Len(final) :
            /\ DeniedItem(items[i])
            /\ Contains(Lowered(items[i].title), Kw_cattle)
            /\ Kw_cattle \in {Get(rules, "boost_keywords", <<>>)[x] :
                                x \in 1..Len(Get(rules, "boost_keywords", <<>>))}
            /\ Contains(Lowered(items[i].title), final[j].keyword)
            /\ \A x \in 1..Len(final[j].sources) :
                    final[j].sources[x] # items[i].source

\* C6: the returned list is in descending order of final score, and entries of
\* equal score are in the order their keywords were first met.
C6_SortedStable ==
    pc = "returned" =>
        \A a, b \in 1..Len(final) :
            a < b =>
                \/ final[a].score > final[b].score
                \/ /\ final[a].score = final[b].score
                   /\ FirstSeen(final[a].keyword) < FirstSeen(final[b].keyword)

\* a returned list with two entries of equal score, and with an entry moved
\* ahead of one met earlier
C6_Witness ==
    /\ pc = "returned"
    /\ \E a, b \in 1..Len(final) : a < b /\ final[a].score = final[b].score
    /\ \E a, b \in 1..Len(final) :
            a < b /\ FirstSeen(final[a].keyword) > FirstSeen(final[b].keyword)

\* C7: every returned entry has a final score at or above rules.score_threshold,
\* 6 when the key is absent, and every keyword whose final score (highest raw
\* score, plus 2 with two or more sources) is at or above it is returned.
C7_Threshold ==
    pc = "returned" =>
        LET th == IF "score_threshold" \in DOMAIN rules
                  THEN rules["score_threshold"] ELSE 6
        IN  /\ \A j \in 1..Len(final) : final[j].score >= th
            /\ \A i \in 1..Len(out) :
                    LET k  == out[i].keyword
                        fs == MaxRaw(k)
                                + (IF Cardinality(GroupSources(k)) >= 2 THEN 2 ELSE 0)
                    IN  fs >= th => \E j \in 1..Len(final) : final[j].keyword = k

\* rules without score_threshold: an entry is returned that reaches 6 only
\* through the bonus, and another keyword is left out
C7_Witness ==
    /\ pc = "returned"
    /\ "score_threshold" \notin DOMAIN rules
    /\ \E j \in 1..Len(final) : MaxRaw(final[j].keyword) < 6
    /\ \E i \in 1..Len(out) : \A j \in 1..Len(final) : final[j].keyword # out[i].keyword

\* C8: no two returned entries share a keyword.
C8_UniqueKeywords ==
    pc = "returned" =>
        \A a, b \in 1..Len(final) : a # b => final[a].keyword # final[b].keyword

\* a returned keyword that three raw candidates, from two or more sources,
\* carried
C8_Witness ==
    /\ pc = "returned"
    /\ \E j \in 1..Len(final) :
            /\ Cardinality(Group(final[j].keyword)) >= 3
            /\ Cardinality(GroupSources(final[j].keyword)) >= 2

\* the score C10 gives a text, with n the count of boost keywords
ExpectedScore(title, n) ==
    LET t == Lowered(title)
    IN  3 * n
        + (IF Contains(t, PlayOnline) \/ Contains(t, Browser) THEN 2 ELSE 0)
        + (IF Contains(t, WhatGameIsThis) \/ Contains(t, NameOfTheGame) THEN 4 ELSE 0)

\* the entries of the boost list found in the title, each entry counted
BoostEntries(title, r) ==
    LET boost == Get(r, "boost_keywords", <<>>)
    IN  {j \in 1..Len(boost) : Contains(Lowered(title), Lowered(boost[j]))}

\* the distinct boost keywords found in the title
BoostDistinct(title, r) ==
    LET boost == Get(r, "boost_keywords", <<>>)
    IN  {Lowered(boost[j]) : j \in BoostEntries(title, r)}

\* C10 as stated: a text with no deny keyword scores 3 for every DISTINCT boost
\* keyword found in it, plus 2 for "play online" or "browser", plus 4 for
\* "what game is this" or "name of the game".
C10_BoostDistinct ==
    pc = "merge" =>
        \A i \in 1..Len(items) :
            LET title == Get(items[i], "title", <<>>)
            IN  ~DeniedBy(title, rules) =>
                    score_item(title, rules)
                        = ExpectedScore(title, Cardinality(BoostDistinct(title, rules)))

\* C10 amended: a text with no deny keyword scores 3 for every ENTRY of the
\* boost list found in it (an entry counts once however often it occurs in
\* the text, a keyword listed twice counts twice), plus 2 for "play online"
\* or "browser", plus 4 for "what game is this" or "name of the game"; the raw
\* candidates carry that score.
C10_BoostPerEntry ==
    pc = "merge" =>
        /\ \A i \in 1..Len(items) :
                LET title == Get(items[i], "title", <<>>)
                IN  ~DeniedBy(title, rules) =>
                        score_item(title, rules)
                            = ExpectedScore(title, Cardinality(BoostEntries(title, rules)))
        /\ \A i \in 1..Len(out) :
                out[i].score = ExpectedScore(out[i].evidence_title,
                                   Cardinality(BoostEntries(out[i].evidence_title, rules)))

\* a title that holds the keyword twice has been scored under a boost list
\* that holds it twice
C10_Witness ==
    /\ pc = "merge"
    /\ Cardinality(BoostEntries(Title_CCb, rules)) = 2
    /\ Cardinality(BoostDistinct(Title_CCb, rules)) = 1
    /\ \E i \in 1..Len(out) : out[i].evidence_title = Title_CCb /\ out[i].score = 6

---------------------------------------------------------------------------
(* Properties of main, under SpecMain                                      *)

\* C9: the day's signals log only grows: a run that saves its candidates
\* leaves every record the log of that day already held in it.
C9_AppendOnly ==
    [][(pc = "save" /\ today \in DOMAIN files /\ today' = today)
          => \A n \in 1..Len(files[today]) :
                \E m \in 1..Len(files'[today]) : files'[today][m] = files[today][n]]_vars

=============================================================================
